---- MODULE Spec2Model ----
(* A model of the DSP store and engine of scripts/dsp-cli.py: the .dsp      *)
(* directory tree as a record of maps, every Engine mutation as an operator *)
(* from a store to a result (the store it leaves behind and how it ended),  *)
(* and the queries as operators over a store.                               *)
EXTENDS Integers, Sequences, FiniteSets, TLC

(* ------------------------------------------------------------------ *)
(* Bounds                                                             *)
(* ------------------------------------------------------------------ *)

\* How many function uids (func-...) and object uids (obj-...) _gen_uid hands
\* out in one run of the model.
NumFuncs == 1

NumObjs == 2

\* Lines and export entries a store may hold (guards of the growing operations).
MaxStoreSize == 3

\* How many of the uids a caller also passes with white space after them.
NumPadded == 1

\* How many of the uids a caller also passes as a path that climbs to them.
NumClimbing == 1

\* How many entities a store holds that an earlier run created, in the stores
\* a tree walk of bounded depth is run on; the depths asked of such a walk.
NumOlder == 1

MaxShallow == 2

\* addImport calls that build the store of a walk of bounded depth.
MaxOlderEdges == 4

\* Lines and export entries of a store whose operations all name one entity
\* as the imported or the shared one.
MaxAskedSize == 5

(* ------------------------------------------------------------------ *)
(* Names, texts                                                       *)
(* ------------------------------------------------------------------ *)

\* uids are numbers; their order is the lexicographic order sorted() uses, in
\* which every func-... uid comes before every obj-... uid.
FuncUids == 1..NumFuncs

ObjUids == (NumFuncs + 1)..(NumFuncs + NumObjs)

UIDs == FuncUids \cup ObjUids

\* The uid _gen_uid returns for a kind: a fresh one with the kind's prefix.
\* The uids of one kind are handed out in increasing order; a function created
\* after an object still sorts before it, so creation order and sorted order
\* differ in some runs.
_gen_uid(kind, taken) ==
    LET free == (IF kind = "function" THEN FuncUids ELSE ObjUids) \ taken
    IN {u \in free : \A v \in free : u <= v}

\* A uid followed by white space, as a caller can pass it: another string,
\* and the same word once a line is stripped or split.
Pad(u) == u + NumFuncs + NumObjs

PadNames == {Pad(u) : u \in 1..NumPadded}

\* The names a caller can pass or an entry of an exports directory can bear.
\* A uid whose entity was removed is the name of an entity that does not
\* exist; a padded uid never names an entity.
Names == UIDs \cup PadNames

\* A uid behind "../../", as a caller can pass it: no uid, and as the name of
\* an entry of an exports directory the path of the entity directory of the uid.
Climb(u) == u + 2 * (NumFuncs + NumObjs)

ClimbNames == {Climb(u) : u \in 1..NumClimbing}

ClimbTarget(n) == n - 2 * (NumFuncs + NumObjs)

\* The uids of the entities an earlier run created: obj-... uids that sort
\* after those _gen_uid hands out.
OlderUids == {3 * (NumFuncs + NumObjs) + i : i \in 1..NumOlder}

\* str.strip() of a name.
Strip(n) == IF n \in PadNames THEN n - (NumFuncs + NumObjs) ELSE n

\* Python's None, and the empty string (falsy, but "is not None").
None == -1

EmptyStr == -2

Truthy(x) == x # None /\ x # EmptyStr

\* --toc values: the default TOC.
TocArgs == {None}

Whys == {"w1", "w2"}

\* A line of text is [key, rest]: the text "key: rest" that _DESC_KEY_RE
\* matches, or, with no key, the text rest that it does not match. A value is
\* the lines of its text, the first one with no key; the texts end in no
\* white space.
NoKey == ""

PlainLine(t) == [key |-> NoKey, rest |-> t]

KeyLine(k, t) == [key |-> k, rest |-> t]

\* The value that is one line of text.
Text(t) == <<PlainLine(t)>>

Purposes == {Text("p")}

Sources == {Text("s")}

\* No file at this path.
Absent == "<absent>"

OWNER_WHY == "owner: method/member of this object"

OK == "ok"

ENTITY_NOT_FOUND == "EntityNotFound"

REVERSE_NOT_FOUND == "ReverseRecordNotFound"

FILE_EXISTS_ERROR == "FileExistsError"

IS_A_DIRECTORY_ERROR == "IsADirectoryError"

(* ------------------------------------------------------------------ *)
(* The store                                                          *)
(* ------------------------------------------------------------------ *)

VARIABLES
    ents,      \* the uids whose directory exists
    used,      \* every uid _gen_uid returned so far
    imports,   \* imports[u]: the lines of u's imports file
    shared,    \* shared[u]: the lines of u's shared file
    exports,   \* exports[u][n]: the entry named n in u's exports directory
    toc,       \* toc[t]: the TOC file of root t
    desc,      \* desc[u]: u's description record
    q          \* the query in progress, its locals and its result

storeVars == <<ents, used, imports, shared, exports, toc, desc>>

vars == <<ents, used, imports, shared, exports, toc, desc, q>>

store ==
    [ents |-> ents, used |-> used, imports |-> imports, shared |-> shared,
     exports |-> exports, toc |-> toc, desc |-> desc]

NoRecs == [r \in UIDs |-> Absent]

\* An entry of an exports directory: nothing, a recipient file (text), or a
\* shared sub-directory (its description file and its recipient files).
NoEntry == [k |-> "none", text |-> Absent, desc |-> Absent, recs |-> NoRecs]

FileEntry(t) == [k |-> "file", text |-> t, desc |-> Absent, recs |-> NoRecs]

DirEntry(d, recs) == [k |-> "dir", text |-> Absent, desc |-> d, recs |-> recs]

NoExports == [n \in Names |-> NoEntry]

NoToc == [exists |-> FALSE, lines |-> <<>>]

\* No description file in the entity directory.
NoDesc == <<>>

EmptyStore ==
    [ents |-> {}, used |-> {},
     imports |-> [u \in UIDs |-> <<>>],
     shared |-> [u \in UIDs |-> <<>>],
     exports |-> [u \in UIDs |-> NoExports],
     toc |-> [t \in TocArgs |-> NoToc],
     desc |-> [u \in UIDs |-> NoDesc]]

Res(S, e) == [st |-> S, err |-> e]

\* No query running: no locals, no result.
QIdle ==
    [pc |-> "idle", mode |-> "", root |-> None, depth |-> 0, visited |-> {},
     stack |-> <<>>, out |-> <<>>, cycles |-> <<>>]

(* ------------------------------------------------------------------ *)
(* Low-level helpers                                                  *)
(* ------------------------------------------------------------------ *)

MapSeq(s, F(_)) == [i \in 1..Len(s) |-> F(s[i])]

InSeq(x, s) == \E i \in 1..Len(s) : s[i] = x

\* A line of a file is the names written on it: <<n>> is the text of n, and
\* <<n, v>> the text of n, a blank, "via=" and the text of v. ln.strip()
\* takes the white space off its end.
StripLine(line) ==
    IF Len(line) = 0 THEN line
    ELSE Append(SubSeq(line, 1, Len(line) - 1), Strip(line[Len(line)]))

\* The lines of a file, each stripped; file is what is on disk.
RECURSIVE _read_lines(_)
_read_lines(file) ==
    IF file = <<>> THEN <<>> ELSE <<StripLine(Head(file))>> \o _read_lines(Tail(file))

\* line.split(): the first word is the uid, the word after "via=" the via.
_parse_import_line(line) ==
    IF Len(line) = 0 THEN <<EmptyStr, None>>
    ELSE <<Strip(line[1]), IF Len(line) > 1 THEN Strip(line[Len(line)]) ELSE None>>

_format_import_line(uid, via) ==
    IF Truthy(via) THEN <<uid, via>> ELSE <<uid>>

\* The file after _append_line_unique: untouched when the line, as given, is
\* among the stripped lines; else the stripped lines and the line as given.
_append_line_unique(file, line) ==
    LET existing == _read_lines(file)
    IN IF InSeq(line, existing) THEN file ELSE Append(existing, line)

\* A removal that leaves no line at all.
ClearLines(file, target) == <<>>

_remove_line_value(file, target) ==
    SelectSeq(_read_lines(file), LAMBDA ln : ln # target)

\* sorted(): the names of a set in lexicographic order, a padded uid right
\* after the uid.
NameOrder ==
    SelectSeq([i \in 1..(2 * (NumFuncs + NumObjs)) |->
                  IF i % 2 = 1 THEN (i + 1) \div 2 ELSE Pad(i \div 2)],
              LAMBDA n : n \in Names)
    \o [i \in 1..NumOlder |-> 3 * (NumFuncs + NumObjs) + i]

SortedSeq(s) == SelectSeq(NameOrder, LAMBDA n : n \in s)

(* ------------------------------------------------------------------ *)
(* Description parsing / serialization                                *)
(* ------------------------------------------------------------------ *)

_DESC_ORDERED == <<"source", "kind", "purpose">>

\* A dict is the sequence of its (key, value) pairs in insertion order.
DictKeys(d) == {d[i][1] : i \in 1..Len(d)}

\* d.get(k, default)
DictGet(d, k, default) ==
    IF k \in DictKeys(d) THEN d[CHOOSE i \in 1..Len(d) : d[i][1] = k][2] ELSE default

\* d[k] = v: in place when the key is there, at the end when it is new.
DictPut(d, k, v) ==
    IF k \in DictKeys(d)
    THEN [i \in 1..Len(d) |-> IF d[i][1] = k THEN <<k, v>> ELSE d[i]]
    ELSE Append(d, <<k, v>>)

\* d.update(fields)
RECURSIVE DictUpdate(_, _)
DictUpdate(d, fields) ==
    IF fields = <<>> THEN d
    ELSE DictUpdate(DictPut(d, Head(fields)[1], Head(fields)[2]), Tail(fields))

\* f"{k}: {v}": the key before the first line of the value, then its others.
FieldLines(k, v) == <<KeyLine(k, v[1].rest)>> \o Tail(v)

RECURSIVE SerializeAll(_)
SerializeAll(pairs) ==
    IF pairs = <<>> THEN <<>>
    ELSE FieldLines(Head(pairs)[1], Head(pairs)[2]) \o SerializeAll(Tail(pairs))

\* The lines of the description file: the reserved keys first, in their
\* order, then the other keys in the order of the dict.
_serialize_desc(fields) ==
    LET reserved == SelectSeq(_DESC_ORDERED, LAMBDA k : k \in DictKeys(fields))
    IN SerializeAll([i \in 1..Len(reserved) |->
                        <<reserved[i], DictGet(fields, reserved[i], <<>>)>>])
       \o SerializeAll(SelectSeq(fields, LAMBDA kv : ~InSeq(kv[1], _DESC_ORDERED)))

\* The loop of _parse_desc: a line that matches the key pattern closes the
\* value gathered so far and opens the next; any other line goes on the value.
RECURSIVE ParseLoop(_, _, _, _)
ParseLoop(lines, result, cur_key, cur_lines) ==
    IF lines = <<>>
    THEN IF cur_key # NoKey THEN DictPut(result, cur_key, cur_lines) ELSE result
    ELSE LET raw == Head(lines)
         IN IF raw.key # NoKey
            THEN ParseLoop(Tail(lines),
                           IF cur_key # NoKey THEN DictPut(result, cur_key, cur_lines)
                           ELSE result,
                           raw.key, <<PlainLine(raw.rest)>>)
            ELSE ParseLoop(Tail(lines), result, cur_key,
                           IF cur_key # NoKey THEN Append(cur_lines, raw) ELSE cur_lines)

_parse_desc(text) == ParseLoop(text, <<>>, NoKey, <<>>)

(* ------------------------------------------------------------------ *)
(* Store                                                              *)
(* ------------------------------------------------------------------ *)

entity_exists(S, uid) == uid \in S.ents

all_uids(S) == SortedSeq(S.ents)

read_imports(S, uid) == MapSeq(_read_lines(S.imports[uid]), _parse_import_line)

read_import_uids(S, uid) == MapSeq(read_imports(S, uid), LAMBDA e : e[1])

read_shared(S, uid) == MapSeq(_read_lines(S.shared[uid]), LAMBDA ln : ln[1])

read_desc(S, uid) == _parse_desc(S.desc[uid])

write_desc(S, uid, fields) == [S EXCEPT !.desc[uid] = _serialize_desc(fields)]

\* The entry named n in the exports directory of the entity directory named
\* uid; there is no directory with a padded name.
ExportsEntry(S, uid, n) == IF uid \in DOMAIN S.exports THEN S.exports[uid][n] ELSE NoEntry

\* The (name, text) pairs of the files of uid's exports directory, sorted.
read_direct_recipients(S, uid) ==
    LET files == {n \in DOMAIN S.exports[uid] : ExportsEntry(S, uid, n).k = "file"}
    IN MapSeq(SortedSeq(files), LAMBDA n : <<n, S.exports[uid][n].text>>)

\* The recipient files of a shared sub-directory, sorted, as (name, text).
SubRecipients(entry) ==
    LET files == {n \in UIDs : entry.recs[n] # Absent}
    IN MapSeq(SortedSeq(files), LAMBDA n : <<n, entry.recs[n]>>)

\* A create that leaves the TOC as it is.
toc_skip(S, t, uid) == S

toc_append(S, t, uid) ==
    [S EXCEPT !.toc[t] =
        [exists |-> TRUE, lines |-> _append_line_unique(S.toc[t].lines, <<uid>>)]]

\* What an exports entry weighs: itself, and its recipient files.
EntrySize(e) ==
    IF e.k = "none" THEN 0
    ELSE 1 + Cardinality({r \in UIDs : e.recs[r] # Absent})

RECURSIVE ExportsSize(_, _)
ExportsSize(ex, n) ==
    IF n = 0 THEN 0 ELSE EntrySize(ex[n]) + ExportsSize(ex, n - 1)

\* The import lines, shared lines, export entries and recipient files of S.
RECURSIVE SizeUpTo(_, _)
SizeUpTo(S, u) ==
    IF u = 0 THEN 0
    ELSE Len(S.imports[u]) + Len(S.shared[u])
         + ExportsSize(S.exports[u], NumFuncs + NumObjs + NumPadded)
         + SizeUpTo(S, u - 1)

StoreSize(S) == SizeUpTo(S, NumFuncs + NumObjs)

(* ------------------------------------------------------------------ *)
(* Engine: mutations                                                  *)
(* ------------------------------------------------------------------ *)

\* mkdir of the entity, its description, its empty imports (and shared) file.
NewEntity(S, uid, source, kind, purpose) ==
    [S EXCEPT !.ents = @ \cup {uid},
              !.used = @ \cup {uid},
              !.desc[uid] = _serialize_desc(<<<<"source", source>>, <<"kind", Text(kind)>>,
                                               <<"purpose", purpose>>>>),
              !.imports[uid] = <<>>,
              !.shared[uid] = <<>>]

create_object(S, uid, source, purpose, kind, t) ==
    Res(toc_append(NewEntity(S, uid, source, kind, purpose), t, uid), OK)

create_function(S, uid, source, purpose, owner, t) ==
    LET S1 == NewEntity(S, uid, source, "function", purpose)
    IN IF Truthy(owner)
       THEN IF ~entity_exists(S1, owner)
            THEN Res(S1, ENTITY_NOT_FOUND)
            ELSE LET S2 == [S1 EXCEPT
                        !.imports[owner] = _append_line_unique(@, <<uid>>),
                        !.exports[uid][owner] = FileEntry(OWNER_WHY)]
                 IN Res(toc_append(S2, t, uid), OK)
       ELSE Res(toc_append(S1, t, uid), OK)

\* shared_sub.mkdir and the description written into it, for a sid that climbs
\* out of the exports directory: shared_sub is the entity directory of a uid.
\* The directory is made if it is not there, an entity with no file but the
\* description, which is written if there is none.
ClimbStep(S, sid) ==
    LET uid == ClimbTarget(sid)
    IN IF entity_exists(S, uid) THEN S
       ELSE [S EXCEPT !.ents = @ \cup {uid},
                      !.desc[uid] = <<PlainLine(ToString(sid))>>]

\* One turn of create_shared's loop, from a result of the turns before.
SharedStep(R, exporter, sid) ==
    IF R.err # OK THEN R
    ELSE IF sid \in ClimbNames
    THEN Res(ClimbStep([R.st EXCEPT !.shared[exporter] = _append_line_unique(@, <<sid>>)],
                       sid), OK)
    ELSE LET S1 == [R.st EXCEPT !.shared[exporter] = _append_line_unique(@, <<sid>>)]
             entry == S1.exports[exporter][sid]
             purpose == IF entity_exists(S1, sid)
                        THEN DictGet(read_desc(S1, sid), "purpose", Text(""))
                        ELSE Text("")
             \* the description of the sub-directory, by its first line
             text == IF purpose # Text("") THEN purpose[1].rest ELSE ToString(sid)
         IN IF entry.k = "file" THEN Res(S1, FILE_EXISTS_ERROR)
            ELSE Res([S1 EXCEPT !.exports[exporter][sid] =
                        DirEntry(IF entry.desc = Absent THEN text ELSE entry.desc,
                                 entry.recs)], OK)

RECURSIVE SharedLoop(_, _, _)
SharedLoop(R, exporter, sids) ==
    IF sids = <<>> THEN R
    ELSE SharedLoop(SharedStep(R, exporter, Head(sids)), exporter, Tail(sids))

create_shared(S, exporter, shared_uids) ==
    IF ~entity_exists(S, exporter) THEN Res(S, ENTITY_NOT_FOUND)
    ELSE SharedLoop(Res(S, OK), exporter, shared_uids)

add_import(S, importer, imported, why, exporter) ==
    IF ~entity_exists(S, importer) THEN Res(S, ENTITY_NOT_FOUND)
    ELSE
    LET line == _format_import_line(imported, exporter)
        S1 == [S EXCEPT !.imports[importer] = _append_line_unique(@, line)]
    IN IF Truthy(exporter)
       THEN IF ~entity_exists(S1, exporter) THEN Res(S1, ENTITY_NOT_FOUND)
            ELSE LET entry == S1.exports[exporter][imported]
                 IN IF entry.k = "file" THEN Res(S1, FILE_EXISTS_ERROR)
                    ELSE Res([S1 EXCEPT !.exports[exporter][imported] =
                                DirEntry(entry.desc,
                                         [entry.recs EXCEPT ![importer] = why])], OK)
       ELSE IF ~entity_exists(S1, imported) THEN Res(S1, ENTITY_NOT_FOUND)
            ELSE IF S1.exports[imported][importer].k = "dir"
                 THEN Res(S1, IS_A_DIRECTORY_ERROR)
                 ELSE Res([S1 EXCEPT !.exports[imported][importer] = FileEntry(why)], OK)

update_import_why(S, importer, imported, new_why, exporter) ==
    IF Truthy(exporter)
    THEN LET entry == ExportsEntry(S, exporter, imported)
         IN IF entry.k # "dir" \/ importer \notin UIDs \/ entry.recs[importer] = Absent
            THEN Res(S, REVERSE_NOT_FOUND)
            ELSE Res([S EXCEPT !.exports[exporter][imported].recs[importer] = new_why], OK)
    ELSE LET entry == ExportsEntry(S, imported, importer)
         IN IF entry.k = "none" THEN Res(S, REVERSE_NOT_FOUND)
            ELSE IF entry.k = "dir" THEN Res(S, IS_A_DIRECTORY_ERROR)
            ELSE Res([S EXCEPT !.exports[imported][importer] = FileEntry(new_why)], OK)

update_description(S, uid, fields) ==
    IF ~entity_exists(S, uid) THEN Res(S, ENTITY_NOT_FOUND)
    ELSE Res(write_desc(S, uid, DictUpdate(read_desc(S, uid), fields)), OK)

move_entity(S, uid, new_source) ==
    IF ~entity_exists(S, uid) THEN Res(S, ENTITY_NOT_FOUND)
    ELSE Res(write_desc(S, uid, DictPut(read_desc(S, uid), "source", new_source)), OK)

\* The loop of remove_import: the first matching edge is dropped, every other
\* line is written back formatted.
RECURSIVE RemoveFirst(_, _, _, _)
RemoveFirst(edges, imported, exporter, removed) ==
    IF edges = <<>> THEN <<>>
    ELSE LET e == Head(edges)
         IN IF e[1] = imported /\ ~removed /\ (exporter = None \/ e[2] = exporter)
            THEN RemoveFirst(Tail(edges), imported, exporter, TRUE)
            ELSE <<_format_import_line(e[1], e[2])>>
                 \o RemoveFirst(Tail(edges), imported, exporter, removed)

\* A removal that leaves the recipient file of the sub-directory in place.
KeepSub(S, exporter, imported, importer) == S

\* _safe_unlink of a recipient file inside a shared sub-directory.
UnlinkSub(S, exporter, imported, importer) ==
    IF ExportsEntry(S, exporter, imported).k = "dir" /\ importer \in UIDs
    THEN [S EXCEPT !.exports[exporter][imported].recs[importer] = Absent]
    ELSE S

\* _safe_unlink of a recipient file of an exports directory.
UnlinkDirect(S, imported, importer) ==
    IF ExportsEntry(S, imported, importer).k = "file"
    THEN [S EXCEPT !.exports[imported][importer] = NoEntry]
    ELSE S

remove_import(S, importer, imported, exporter) ==
    IF ~entity_exists(S, importer) THEN Res(S, ENTITY_NOT_FOUND)
    ELSE
    LET S1 == [S EXCEPT !.imports[importer] =
                  RemoveFirst(read_imports(S, importer), imported, exporter, FALSE)]
    IN IF Truthy(exporter)
       THEN Res(UnlinkSub(S1, exporter, imported, importer), OK)
       ELSE Res(UnlinkDirect(S1, imported, importer), OK)

\* The import lines of a recipient without the edge (shared_uid, via exporter).
StripVia(S, recipient_uid, shared_uid, exporter) ==
    MapSeq(SelectSeq(read_imports(S, recipient_uid),
                     LAMBDA e : ~(e[1] = shared_uid /\ e[2] = exporter)),
           LAMBDA e : _format_import_line(e[1], e[2]))

remove_shared(S, exporter, shared_uid) ==
    IF ~entity_exists(S, exporter) THEN Res(S, ENTITY_NOT_FOUND)
    ELSE
    LET S1 == [S EXCEPT !.shared[exporter] = _remove_line_value(@, <<shared_uid>>)]
        entry == S1.exports[exporter][shared_uid]
        recipients == {r \in UIDs : entry.recs[r] # Absent /\ entity_exists(S1, r)}
    IN IF entry.k = "dir"
       THEN Res([S1 EXCEPT
                   !.imports = [u \in UIDs |->
                       IF u \in recipients
                       THEN StripVia(S1, u, shared_uid, exporter)
                       ELSE S1.imports[u]],
                   !.exports[exporter][shared_uid] = NoEntry], OK)
       ELSE Res(S1, OK)

\* remove_entity, first loop: the import lines of another entity without the
\* edges that name uid as imported or as via.
StripUid(S, other, uid) ==
    MapSeq(SelectSeq(read_imports(S, other), LAMBDA e : e[1] # uid /\ e[2] # uid),
           LAMBDA e : _format_import_line(e[1], e[2]))

\* remove_entity, second loop: the reverse records of uid's own edges.
RECURSIVE UnlinkOwn(_, _, _)
UnlinkOwn(S, uid, edges) ==
    IF edges = <<>> THEN S
    ELSE LET e == Head(edges)
         IN UnlinkOwn(IF Truthy(e[2]) THEN UnlinkSub(S, e[2], e[1], uid)
                      ELSE UnlinkDirect(S, e[1], uid),
                      uid, Tail(edges))

remove_entity(S, uid) ==
    IF ~entity_exists(S, uid) THEN Res(S, ENTITY_NOT_FOUND)
    ELSE
    LET others == S.ents \ {uid}
        \* every other entity's edges that name uid as imported or as via
        S1 == [S EXCEPT !.imports = [o \in UIDs |->
                  IF o \in others
                     /\ \E i \in 1..Len(S.imports[o]) :
                          LET e == read_imports(S, o)[i] IN e[1] = uid \/ e[2] = uid
                  THEN StripUid(S, o, uid)
                  ELSE S.imports[o]]]
        S2 == UnlinkOwn(S1, uid, read_imports(S1, uid))
        \* every other entity that shares uid
        sharers == {o \in others : InSeq(uid, read_shared(S2, o))}
        S3 == [S2 EXCEPT
                 !.shared = [o \in UIDs |->
                     IF o \in sharers THEN _remove_line_value(S2.shared[o], <<uid>>)
                     ELSE S2.shared[o]],
                 !.exports = [o \in UIDs |->
                     IF o \in sharers /\ S2.exports[o][uid].k = "dir"
                     THEN [S2.exports[o] EXCEPT ![uid] = NoEntry]
                     ELSE S2.exports[o]]]
        S4 == [S3 EXCEPT !.toc = [t \in TocArgs |->
                  IF S3.toc[t].exists
                  THEN [exists |-> TRUE,
                        lines |-> _remove_line_value(S3.toc[t].lines, <<uid>>)]
                  ELSE S3.toc[t]]]
    IN Res([S4 EXCEPT !.ents = @ \ {uid},
                      !.imports[uid] = <<>>,
                      !.shared[uid] = <<>>,
                      !.exports[uid] = NoExports,
                      !.desc[uid] = NoDesc], OK)

(* ------------------------------------------------------------------ *)
(* Engine: getRecipients                                              *)
(* ------------------------------------------------------------------ *)

SeqNames(recs) == {recs[i][1] : i \in 1..Len(recs)}

\* A pass that appends every pair it finds, seen or not.
AppendAll(acc, more) == acc \o more

\* Appends the pairs of `more` whose name is not yet in `acc`, in order.
RECURSIVE AppendUnseen(_, _)
AppendUnseen(acc, more) ==
    IF more = <<>> THEN acc
    ELSE AppendUnseen(IF Head(more)[1] \in SeqNames(acc) THEN acc
                      ELSE Append(acc, Head(more)), Tail(more))

\* Second pass: the sub-directories for uid of the entities that share uid.
RECURSIVE SharedPass(_, _, _, _)
SharedPass(S, uid, acc, todo) ==
    IF todo = <<>> THEN acc
    ELSE LET other == Head(todo)
             sub == S.exports[other][uid]
         IN SharedPass(S, uid,
                IF InSeq(uid, read_shared(S, other)) /\ sub.k = "dir"
                THEN AppendUnseen(acc, SubRecipients(sub)) ELSE acc,
                Tail(todo))

\* No third pass: the reverse records are all that is read.
NoScan(S, uid, acc, todo) == acc

\* Third pass: the entities whose imports name uid, with an empty reason.
RECURSIVE ScanPass(_, _, _, _)
ScanPass(S, uid, acc, todo) ==
    IF todo = <<>> THEN acc
    ELSE LET other == Head(todo)
         IN ScanPass(S, uid,
                IF other \notin SeqNames(acc) /\ InSeq(uid, read_import_uids(S, other))
                THEN Append(acc, <<other, "">>) ELSE acc,
                Tail(todo))

_all_importers(S, uid) ==
    LET p1 == AppendUnseen(<<>>, read_direct_recipients(S, uid))
        p2 == SharedPass(S, uid, p1, all_uids(S))
    IN ScanPass(S, uid, p2, all_uids(S))

\* get_recipients: [err, val].
get_recipients(S, uid) ==
    IF ~entity_exists(S, uid) THEN [err |-> ENTITY_NOT_FOUND, val |-> <<>>]
    ELSE [err |-> OK, val |-> _all_importers(S, uid)]

\* get_entity: [err, val].
get_entity(S, uid) ==
    IF ~entity_exists(S, uid) THEN [err |-> ENTITY_NOT_FOUND, val |-> <<>>]
    ELSE [err |-> OK,
          val |-> [uid |-> uid,
                   description |-> read_desc(S, uid),
                   imports |-> read_imports(S, uid),
                   shared |-> read_shared(S, uid),
                   exported_to |-> _all_importers(S, uid)]]

(* ------------------------------------------------------------------ *)
(* Engine: detectCycles                                               *)
(* ------------------------------------------------------------------ *)

WHITE == 0

GRAY == 1

BLACK == 2

\* What color.get(uid, -1) gives for a uid that is no key of color.
NO_COLOR == -1

\* A report that holds the repeated node alone, not the stack above it.
CycleOfOne(path_stack, imp_uid) == <<imp_uid, imp_uid>>

\* path_stack[idx:] + [imp_uid], idx the first place of imp_uid on the stack.
CycleFrom(path_stack, imp_uid) ==
    LET idx == CHOOSE i \in 1..Len(path_stack) :
                  /\ path_stack[i] = imp_uid
                  /\ \A j \in 1..(i - 1) : path_stack[j] # imp_uid
    IN SubSeq(path_stack, idx, Len(path_stack)) \o <<imp_uid>>

\* dfs and the loop over the imports of the node it colours; st is the
\* locals of detect_cycles: color, path_stack, cycles.
RECURSIVE dfs(_, _, _)
RECURSIVE DfsLoop(_, _, _)
DfsLoop(st, S, todo) ==
    IF todo = <<>> THEN st
    ELSE LET imp_uid == Head(todo)
             c == st.color[imp_uid]
             st1 == IF c = GRAY
                    THEN [st EXCEPT !.cycles = Append(@, CycleFrom(st.path_stack, imp_uid))]
                    ELSE IF c = WHITE THEN dfs(st, S, imp_uid)
                    ELSE st
         IN DfsLoop(st1, S, Tail(todo))

dfs(st, S, u) ==
    LET st1 == [st EXCEPT !.color[u] = GRAY, !.path_stack = Append(@, u)]
        st2 == DfsLoop(st1, S, read_import_uids(S, u))
    IN [st2 EXCEPT !.path_stack = SubSeq(@, 1, Len(@) - 1), !.color[u] = BLACK]

\* A search that ends with the first tree.
DfsFirstOnly(st, S, todo) ==
    IF todo = <<>> THEN st ELSE dfs(st, S, Head(todo))

\* The loop over all_uids that starts dfs at every uid still white.
RECURSIVE DfsAll(_, _, _)
DfsAll(st, S, todo) ==
    IF todo = <<>> THEN st
    ELSE DfsAll(IF st.color[Head(todo)] = WHITE THEN dfs(st, S, Head(todo)) ELSE st,
                S, Tail(todo))

detect_cycles(S) ==
    LET st0 == [color |-> [u \in UIDs |-> IF u \in S.ents THEN WHITE ELSE NO_COLOR],
                path_stack |-> <<>>,
                cycles |-> <<>>]
    IN DfsAll(st0, S, all_uids(S)).cycles

(* ------------------------------------------------------------------ *)
(* Engine: getChildren, getParents                                    *)
(* ------------------------------------------------------------------ *)

\* A node of the tree, in the order walk makes them: its uid, how far below
\* the root it is, its cycle flag, the why of the edge that led to it.
Node(u, level, cycle, why) == [uid |-> u, level |-> level, cycle |-> cycle, why |-> why]

\* What walk's loop runs over: (uid, why) pairs.
Neighbours(S, mode, u) ==
    IF mode = "children"
    THEN MapSeq(read_imports(S, u), LAMBDA e : <<e[1], None>>)
    ELSE _all_importers(S, u)

\* A walk that takes no uid for visited.
NeverSeen(u, visited) == FALSE

\* u in visited.
Seen(u, visited) == u \in visited

\* walk(u, d) up to its loop: the node, the visited test, and, for a node to
\* expand, the frame of its loop.
WalkEnter(Q, S, u, d, level, why) ==
    IF Seen(u, Q.visited)
    THEN [Q EXCEPT !.out = Append(@, Node(u, level, TRUE, why))]
    ELSE LET Q1 == [Q EXCEPT !.visited = @ \cup {u},
                             !.out = Append(@, Node(u, level, FALSE, why))]
         IN IF d > 0
            THEN [Q1 EXCEPT !.stack =
                     Append(@, [d |-> d, level |-> level, todo |-> Neighbours(S, Q.mode, u)])]
            ELSE Q1

\* One turn of the loop of the innermost walk, or its return.
WalkTurn(Q, S) ==
    LET n == Len(Q.stack)
        top == Q.stack[n]
    IN IF top.todo = <<>>
       THEN [Q EXCEPT !.stack = SubSeq(@, 1, n - 1)]
       ELSE WalkEnter([Q EXCEPT !.stack[n].todo = Tail(@)], S,
                      Head(top.todo)[1], top.d - 1, top.level + 1, Head(top.todo)[2])

\* A start that lets walk go one level deeper than asked.
WalkStartDeeper(S, mode, uid, depth) ==
    IF ~entity_exists(S, uid) THEN [QIdle EXCEPT !.pc = ENTITY_NOT_FOUND]
    ELSE WalkEnter([QIdle EXCEPT !.pc = "walk", !.mode = mode, !.root = uid,
                                 !.depth = depth], S, uid, depth + 1, 0, None)

\* get_children / get_parents up to the first call of walk.
WalkStart(S, mode, uid, depth) ==
    IF ~entity_exists(S, uid) THEN [QIdle EXCEPT !.pc = ENTITY_NOT_FOUND]
    ELSE WalkEnter([QIdle EXCEPT !.pc = "walk", !.mode = mode, !.root = uid,
                                 !.depth = depth], S, uid, depth, 0, None)

(* ------------------------------------------------------------------ *)
(* Engine: getPath                                                    *)
(* ------------------------------------------------------------------ *)

\* get_path returns None: a path it returns has at least its two ends.
NoPath == <<>>

\* The neighbours get_path collects for current, sorted: the uids its import
\* lines name and the names _all_importers lists.
PathNeighbors(S, current) ==
    SortedSeq({read_imports(S, current)[i][1] : i \in 1..Len(S.imports[current])}
              \cup SeqNames(_all_importers(S, current)))

\* The loop over the sorted neighbours of one dequeued entry: [ret, visited,
\* queue], ret the path returned from inside the loop or NoPath.
RECURSIVE PathScan(_, _, _, _, _)
PathScan(S, to_uid, path, nbs, vq) ==
    IF nbs = <<>> THEN vq
    ELSE LET nb == Head(nbs)
         IN IF nb = to_uid THEN [vq EXCEPT !.ret = Append(path, nb)]
            ELSE IF nb \notin vq.visited /\ entity_exists(S, nb)
                 THEN PathScan(S, to_uid, path, Tail(nbs),
                               [vq EXCEPT !.visited = @ \cup {nb},
                                          !.queue = Append(@, <<nb, Append(path, nb)>>)])
                 ELSE PathScan(S, to_uid, path, Tail(nbs), vq)

\* while queue: popleft, scan the neighbours.
RECURSIVE PathLoop(_, _, _)
PathLoop(S, to_uid, vq) ==
    IF vq.queue = <<>> THEN NoPath
    ELSE LET head == Head(vq.queue)
             after == PathScan(S, to_uid, head[2], PathNeighbors(S, head[1]),
                               [vq EXCEPT !.queue = Tail(@)])
         IN IF after.ret # NoPath THEN after.ret ELSE PathLoop(S, to_uid, after)

\* get_path: [err, val], val the path or NoPath.
get_path(S, from_uid, to_uid) ==
    IF ~entity_exists(S, from_uid) \/ ~entity_exists(S, to_uid)
    THEN [err |-> ENTITY_NOT_FOUND, val |-> NoPath]
    ELSE IF from_uid = to_uid THEN [err |-> OK, val |-> <<from_uid>>]
    ELSE [err |-> OK,
          val |-> PathLoop(S, to_uid,
                           [ret |-> NoPath, visited |-> {from_uid},
                            queue |-> <<<<from_uid, <<from_uid>>>>>>])]

(* ------------------------------------------------------------------ *)
(* Engine: getOrphans                                                 *)
(* ------------------------------------------------------------------ *)

\* A store whose TOC roots are forgotten.
NoRoots(S) == {}

\* The first line of every TOC file that has one.
TocRoots(S) ==
    {_read_lines(S.toc[t].lines)[1][1] :
        t \in {x \in TocArgs : S.toc[x].exists /\ S.toc[x].lines # <<>>}}

\* The imported and via values of the import lines of the existing entities.
ImportedUids(S) ==
    UNION {UNION {{read_imports(S, u)[i][1], read_imports(S, u)[i][2]} :
                     i \in 1..Len(S.imports[u])} : u \in S.ents}
    \ {None, EmptyStr}

\* exports is a directory with an entry in it.
HasExports(S, uid) == \E n \in Names : S.exports[uid][n].k # "none"

get_orphans(S) ==
    SelectSeq(all_uids(S),
              LAMBDA uid : /\ uid \notin TocRoots(S)
                           /\ uid \notin ImportedUids(S)
                           /\ ~HasExports(S, uid))

(* ------------------------------------------------------------------ *)
(* Engine: readTOC                                                    *)
(* ------------------------------------------------------------------ *)

TOC_NOT_FOUND == "TocNotFound"

\* read_toc: [err, val], val the uids of the lines of the TOC file.
read_toc(S, root_uid) ==
    IF ~S.toc[root_uid].exists THEN [err |-> TOC_NOT_FOUND, val |-> <<>>]
    ELSE [err |-> OK, val |-> MapSeq(_read_lines(S.toc[root_uid].lines), LAMBDA ln : ln[1])]

(* ------------------------------------------------------------------ *)
(* The store machine                                                  *)
(* ------------------------------------------------------------------ *)

Init ==
    /\ ents = EmptyStore.ents
    /\ used = EmptyStore.used
    /\ imports = EmptyStore.imports
    /\ shared = EmptyStore.shared
    /\ exports = EmptyStore.exports
    /\ toc = EmptyStore.toc
    /\ desc = EmptyStore.desc
    /\ q = QIdle

\* The store an operation leaves behind, whether it succeeded or not.
Commit(R) ==
    /\ ents' = R.st.ents
    /\ used' = R.st.used
    /\ imports' = R.st.imports
    /\ shared' = R.st.shared
    /\ exports' = R.st.exports
    /\ toc' = R.st.toc
    /\ desc' = R.st.desc
    /\ q' = q

Fits(R) == StoreSize(R.st) <= MaxStoreSize

\* The names a caller passes: the uids the create operations returned, those
\* of removed entities included.
ArgNames == used

CreateObject ==
    \E uid \in _gen_uid("object", used), src \in Sources, p \in Purposes, t \in TocArgs :
        Commit(create_object(store, uid, src, p, "object", t))

CreateFunction ==
    \E uid \in _gen_uid("function", used), src \in Sources, p \in Purposes, t \in TocArgs,
       owner \in ArgNames \cup {None} :
        LET R == create_function(store, uid, src, p, owner, t)
        IN Fits(R) /\ Commit(R)

CreateShared ==
    \E exporter \in ArgNames, a \in ArgNames, b \in ArgNames \cup {None} :
        LET R == create_shared(store, exporter, IF b = None THEN <<a>> ELSE <<a, b>>)
        IN Fits(R) /\ Commit(R)

AddImport ==
    \E importer \in ArgNames, imported \in ArgNames, why \in Whys,
       exporter \in (ArgNames \cup {None}) :
        LET R == add_import(store, importer, imported, why, exporter)
        IN Fits(R) /\ Commit(R)

UpdateImportWhy ==
    \E importer \in ArgNames, imported \in ArgNames, why \in Whys,
       exporter \in (ArgNames \cup {None}) :
        Commit(update_import_why(store, importer, imported, why, exporter))

RemoveImport ==
    \E importer \in ArgNames, imported \in ArgNames,
       exporter \in (ArgNames \cup {None, EmptyStr}) :
        Commit(remove_import(store, importer, imported, exporter))

RemoveShared ==
    \E exporter \in ArgNames, sid \in ArgNames :
        Commit(remove_shared(store, exporter, sid))

RemoveEntity ==
    \E uid \in ArgNames : Commit(remove_entity(store, uid))

Next ==
    \/ CreateObject
    \/ CreateFunction
    \/ CreateShared
    \/ AddImport
    \/ UpdateImportWhy
    \/ RemoveImport
    \/ RemoveShared
    \/ RemoveEntity

Spec == Init /\ [][Next]_vars

(* ------------------------------------------------------------------ *)
(* The store machine with names as a caller may type them             *)
(* ------------------------------------------------------------------ *)

\* A function and the objects, created one after the other.
RECURSIVE Populated(_, _)
Populated(S, n) ==
    IF n = 0 THEN S
    ELSE LET kind == IF Cardinality(S.used) < NumFuncs THEN "function" ELSE "object"
             uid == CHOOSE u \in _gen_uid(kind, S.used) : TRUE
         IN Populated(IF kind = "function"
                      THEN create_function(S, uid, Text("s"), Text("p"), None, None).st
                      ELSE create_object(S, uid, Text("s"), Text("p"), "object", None).st,
                      n - 1)

InitStore(S) ==
    /\ ents = S.ents
    /\ used = S.used
    /\ imports = S.imports
    /\ shared = S.shared
    /\ exports = S.exports
    /\ toc = S.toc
    /\ desc = S.desc
    /\ q = QIdle

\* Every entity there, or all but one that was removed again.
Bases ==
    LET full == Populated(EmptyStore, NumFuncs + NumObjs)
    IN {full} \cup {remove_entity(full, x).st : x \in UIDs}

\* Every entity there, or all but one a climbing name leads to.
BasesRaw ==
    LET full == Populated(EmptyStore, NumFuncs + NumObjs)
    IN {full} \cup {remove_entity(full, ClimbTarget(n)).st : n \in ClimbNames}

InitRaw == \E B \in BasesRaw : InitStore(B)

CreateSharedRaw ==
    \E exporter \in UIDs, sid \in Names \cup ClimbNames :
        LET R == create_shared(store, exporter, <<sid>>)
        IN Fits(R) /\ Commit(R)

AddImportRaw ==
    \E importer \in UIDs, imported \in Names, exporter \in (UIDs \cup {None}) :
        LET R == add_import(store, importer, imported, "w1", exporter)
        IN Fits(R) /\ Commit(R)

RemoveImportRaw ==
    \E importer \in UIDs, imported \in Names, exporter \in (UIDs \cup {None}) :
        Commit(remove_import(store, importer, imported, exporter))

RemoveSharedRaw ==
    \E exporter \in UIDs, sid \in Names :
        Commit(remove_shared(store, exporter, sid))

NextRaw ==
    \/ CreateSharedRaw
    \/ AddImportRaw
    \/ RemoveImportRaw
    \/ RemoveSharedRaw

SpecRaw == InitRaw /\ [][NextRaw]_vars

(* ------------------------------------------------------------------ *)
(* The description machine: entities created and described anew       *)
(* ------------------------------------------------------------------ *)

\* How many entities the description machine creates.
NumDescribed == 1

\* The texts a caller passes for a field: one line, or a line followed by a
\* line of the shape "key: text".
DescValues ==
    {Text("p"),
     <<PlainLine("q"), KeyLine("kind", "function")>>,
     <<PlainLine("r"), KeyLine("note", "n")>>}

\* The dicts update-description builds from --source, --purpose and --kind:
\* one field, or purpose and kind together.
DescFields ==
    {<<<<k, v>>>> : <<k, v>> \in {"source", "purpose", "kind"} \X DescValues}
    \cup {<<<<"purpose", v>>, <<"kind", w>>>> : <<v, w>> \in DescValues \X DescValues}

InitDesc == InitStore(EmptyStore)

CreateObjectText ==
    /\ Cardinality(used) < NumDescribed
    /\ \E uid \in _gen_uid("object", used), p \in DescValues, t \in TocArgs :
          Commit(create_object(store, uid, Text("s"), p, "object", t))

UpdateDescription ==
    \E uid \in used, fields \in DescFields :
        Commit(update_description(store, uid, fields))

MoveEntity ==
    \E uid \in used, new_source \in {Text("s"), Text("t")} :
        Commit(move_entity(store, uid, new_source))

NextDesc ==
    \/ CreateObjectText
    \/ UpdateDescription
    \/ MoveEntity

SpecDesc == InitDesc /\ [][NextDesc]_vars

(* ------------------------------------------------------------------ *)
(* The query machines: a store the operations built, then one query   *)
(* ------------------------------------------------------------------ *)

\* addImport calls that build the store detectCycles is run on, and the store
\* a tree walk is run on; the depths asked of a walk.
MaxEdges == 4

MaxWalkEdges == 3

MaxDepth == 5

\* The addImport calls a store is built with: (importer, imported) pairs.
Links(n) == UNION {[1..k -> UIDs \X UIDs] : k \in 0..n}

\* The store the calls from the i-th on leave behind, a call that fails after
\* writing the import line included.
RECURSIVE Linked(_, _, _)
Linked(S, calls, i) ==
    IF i > Len(calls) THEN S
    ELSE Linked(add_import(S, calls[i][1], calls[i][2], "w1", None).st, calls, i + 1)

InitCycles == \E B \in Bases, calls \in Links(MaxEdges) : InitStore(Linked(B, calls, 1))

DetectCycles ==
    /\ q.pc = "idle"
    /\ q' = [QIdle EXCEPT !.pc = "cycles", !.cycles = detect_cycles(store)]
    /\ UNCHANGED storeVars

NextCycles == DetectCycles

SpecCycles == InitCycles /\ [][NextCycles]_vars

InitWalk == \E B \in Bases, calls \in Links(MaxWalkEdges) : InitStore(Linked(B, calls, 1))

GetChildren ==
    /\ q.pc = "idle"
    /\ \E uid \in UIDs, depth \in 0..MaxDepth :
          q' = WalkStart(store, "children", uid, depth)
    /\ UNCHANGED storeVars

GetParents ==
    /\ q.pc = "idle"
    /\ \E uid \in UIDs, depth \in 0..MaxDepth :
          q' = WalkStart(store, "parents", uid, depth)
    /\ UNCHANGED storeVars

\* The walk goes on: a turn of the innermost loop, or the return of the tree.
WalkStep ==
    /\ q.pc = "walk"
    /\ q' = IF q.stack = <<>> THEN [q EXCEPT !.pc = "done"] ELSE WalkTurn(q, store)
    /\ UNCHANGED storeVars

NextWalk ==
    \/ GetChildren
    \/ GetParents
    \/ WalkStep

\* A call that was started runs on until it returns.
SpecWalk == InitWalk /\ [][NextWalk]_vars /\ WF_vars(WalkStep)

(* ------------------------------------------------------------------ *)
(* The store machine of the importers of one entity                   *)
(* ------------------------------------------------------------------ *)

\* The entity every call names as the imported or the shared uid, and whose
\* recipients are asked for: the first object.
Asked == CHOOSE u \in ObjUids : \A v \in ObjUids : u <= v

FitsAsked(R) == StoreSize(R.st) <= MaxAskedSize

InitAsked == InitStore(Populated(EmptyStore, NumFuncs + NumObjs))

ShareAsked ==
    \E exporter \in UIDs :
        LET R == create_shared(store, exporter, <<Asked>>)
        IN FitsAsked(R) /\ Commit(R)

ImportAsked ==
    \E importer \in UIDs, why \in Whys, exporter \in (UIDs \cup {None}) :
        LET R == add_import(store, importer, Asked, why, exporter)
        IN FitsAsked(R) /\ Commit(R)

UnimportAsked ==
    \E importer \in UIDs, exporter \in (UIDs \cup {None}) :
        Commit(remove_import(store, importer, Asked, exporter))

NextAsked ==
    \/ ShareAsked
    \/ ImportAsked
    \/ UnimportAsked

SpecAsked == InitAsked /\ [][NextAsked]_vars

(* ------------------------------------------------------------------ *)
(* The walk machine of bounded depth, over a store of one more entity *)
(* ------------------------------------------------------------------ *)

\* The entities of the store: those of this run and the older ones.
WideUids == UIDs \cup OlderUids

\* The initialized store with room for them.
WideStore ==
    [ents |-> {}, used |-> {},
     imports |-> [u \in WideUids |-> <<>>],
     shared |-> [u \in WideUids |-> <<>>],
     exports |-> [u \in WideUids |-> [n \in Names \cup OlderUids |-> NoEntry]],
     toc |-> [t \in TocArgs |-> NoToc],
     desc |-> [u \in WideUids |-> NoDesc]]

\* Every entity created, in the order of todo.
RECURSIVE PopulatedWide(_, _)
PopulatedWide(S, todo) ==
    IF todo = <<>> THEN S
    ELSE LET uid == Head(todo)
         IN PopulatedWide(IF uid \in FuncUids
                          THEN create_function(S, uid, Text("s"), Text("p"), None, None).st
                          ELSE create_object(S, uid, Text("s"), Text("p"), "object", None).st,
                          Tail(todo))

\* The addImport calls the store is built with: from an entity to one that
\* sorts after it, so that no chain of edges closes.
LinksDown(n) ==
    UNION {[1..k -> {p \in WideUids \X WideUids : p[1] < p[2]}] : k \in 0..n}

InitShallow ==
    \E calls \in LinksDown(MaxOlderEdges) :
        InitStore(Linked(PopulatedWide(WideStore, SortedSeq(WideUids)), calls, 1))

GetChildrenShallow ==
    /\ q.pc = "idle"
    /\ \E uid \in WideUids, depth \in 0..MaxShallow :
          q' = WalkStart(store, "children", uid, depth)
    /\ UNCHANGED storeVars

GetParentsShallow ==
    /\ q.pc = "idle"
    /\ \E uid \in WideUids, depth \in 0..MaxShallow :
          q' = WalkStart(store, "parents", uid, depth)
    /\ UNCHANGED storeVars

NextShallow ==
    \/ GetChildrenShallow
    \/ GetParentsShallow
    \/ WalkStep

SpecShallow == InitShallow /\ [][NextShallow]_vars /\ WF_vars(WalkStep)

(* ------------------------------------------------------------------ *)
(* Shapes of a store the claims speak of                              *)
(* ------------------------------------------------------------------ *)

HasEdge(S, importer, imported, via) == InSeq(<<imported, via>>, read_imports(S, importer))

\* The names of the recipients getRecipients(uid) lists.
RecipientNames(S, uid) == SeqNames(_all_importers(S, uid))

Count(x, s) == Cardinality({i \in 1..Len(s) : s[i] = x})

NoDuplicates(s) == \A i, j \in 1..Len(s) : s[i] = s[j] => i = j

\* Every edge has its reverse record and every reverse record its edge.
FwdRevAgree(S) ==
    /\ \A I \in S.ents : \A i \in 1..Len(S.imports[I]) :
          LET e == read_imports(S, I)[i]
          IN IF e[2] = None
             THEN S.exports[e[1]][I].k = "file"
             ELSE /\ S.exports[e[2]][e[1]].k = "dir"
                  /\ S.exports[e[2]][e[1]].recs[I] # Absent
    /\ \A M \in UIDs, I \in Names :
          S.exports[M][I].k = "file" => HasEdge(S, I, M, None)
    /\ \A E \in UIDs, M \in Names, I \in UIDs :
          S.exports[E][M].recs[I] # Absent => HasEdge(S, I, M, E)

\* Nothing in S names X any more.
NoReference(S, X) ==
    /\ X \notin S.ents
    /\ \A o \in S.ents \ {X} :
          /\ \A i \in 1..Len(S.imports[o]) :
                LET e == read_imports(S, o)[i] IN e[1] # X /\ e[2] # X
          /\ ~InSeq(X, read_shared(S, o))
          /\ S.exports[o][X].k = "none"
          /\ \A m \in Names : S.exports[o][m].recs[X] = Absent
    /\ \A t \in TocArgs : ~InSeq(<<X>>, _read_lines(S.toc[t].lines))

(* ------------------------------------------------------------------ *)
(* Claims over the store machine                                      *)
(* ------------------------------------------------------------------ *)

\* C1: after any sequence of mutations the forward and reverse indexes agree:
\* every import edge has its reverse record (under the imported entity, or
\* under the exporter's sub-collection for a via edge) and every reverse
\* record has its edge.
C1_IndexesAgree == FwdRevAgree(store)

\* C2: after removeEntity(X) succeeds X does not exist and no other entity's
\* imports, shared list or export area, and no TOC, names X.
C2_RemoveEntityClosure ==
    \A X \in ents :
        LET R == remove_entity(store, X)
        IN R.err = OK => NoReference(R.st, X)

\* C3: addImport and createFunction that report EntityNotFound have written
\* nothing: the store is as it was.
C3_FailureWritesNothing ==
    /\ \A importer \in used, imported \in used, why \in Whys,
          exporter \in used \cup {None} :
          LET R == add_import(store, importer, imported, why, exporter)
          IN R.err = ENTITY_NOT_FOUND => R.st = store
    /\ \A uid \in _gen_uid("function", used), owner \in used, t \in TocArgs :
          LET R == create_function(store, uid, Text("s"), Text("p"), owner, t)
          IN R.err = ENTITY_NOT_FOUND => R.st = store

\* C4: a uid is in an entity's shared list exactly when the entity's export
\* area holds a sub-collection keyed by that uid.
C4_SharedIffSubCollection ==
    \A E \in ents, sid \in Names :
        InSeq(sid, read_shared(store, E)) <=> exports[E][sid].k = "dir"

\* C5: right after addImport(I, M, why, E) succeeds, getRecipients lists
\* (I, why): getRecipients(M) when E is none, getRecipients(M) or
\* getRecipients(E) when E is given.
C5_AddImportListed ==
    \A I \in used, M \in used, why \in Whys, E \in used \cup {None} :
        LET R == add_import(store, I, M, why, E)
        IN R.err = OK =>
             \/ InSeq(<<I, why>>, get_recipients(R.st, M).val)
             \/ E # None /\ InSeq(<<I, why>>, get_recipients(R.st, E).val)

\* C6 as claimed: after addImport(I, M, why, E) and then removeImport(I, M, E),
\* getRecipients no longer lists I: getRecipients(M), or getRecipients(E) when
\* E is given.
C6_RemoveImportUnlisted ==
    \A I \in used, M \in used, why \in Whys, E \in used \cup {None} :
        LET A == add_import(store, I, M, why, E)
            R == remove_import(A.st, I, M, E)
        IN A.err = OK /\ R.err = OK =>
             \/ I \notin SeqNames(get_recipients(R.st, M).val)
             \/ E # None /\ I \notin SeqNames(get_recipients(R.st, E).val)

\* C6 as amended: for existing I, M and optional existing E, if getRecipients(T)
\* did not list I, then after addImport(I, M, why, E) and removeImport(I, M, E)
\* right after it getRecipients(T) does not list I, for T = M and, when E is
\* given, for T = E.
C6_AddThenRemoveRestores ==
    \A M \in ents :
        LET beforeM == RecipientNames(store, M)
        IN \A E \in ents \cup {None} :
             LET beforeE == IF E = None THEN {} ELSE RecipientNames(store, E)
             IN \A I \in ents, why \in Whys :
                  LET A == add_import(store, I, M, why, E)
                      R == remove_import(A.st, I, M, E)
                  IN A.err = OK /\ R.err = OK =>
                       /\ I \notin beforeM => I \notin RecipientNames(R.st, M)
                       /\ E # None /\ I \notin beforeE => I \notin RecipientNames(R.st, E)

\* A store in which addImport(I, M, why, E) and removeImport(I, M, E) have run:
\* the emptied sub-collection the pair leaves under E, and I unlisted under M.
C6_Witness ==
    \E I \in ents, M \in ents, E \in ents :
        /\ I # M /\ E # M /\ I # E
        /\ exports[E][M].k = "dir"
        /\ exports[E][M].recs = NoRecs
        /\ ~InSeq(M, read_shared(store, E))
        /\ imports[I] = <<>>
        /\ I \notin RecipientNames(store, M)
        /\ add_import(store, I, M, "w1", E).err = OK

\* C7: no import list holds two edges with the same (imported, via), no shared
\* list holds a uid twice, and a second addImport or createShared with the
\* same arguments leaves exactly one entry.
C7_SetSemantics ==
    /\ \A u \in ents :
          NoDuplicates(read_imports(store, u)) /\ NoDuplicates(read_shared(store, u))
    /\ \A I \in ents, M \in Names, why \in Whys, E \in Names \cup {None} :
          LET A == add_import(store, I, M, why, E)
              B == add_import(A.st, I, M, why, E)
          IN A.err = OK =>
                 Count(<<Strip(M), IF E = None THEN None ELSE Strip(E)>>,
                       read_imports(B.st, I)) = 1
    /\ \A E \in ents, sid \in Names :
          LET A == create_shared(store, E, <<sid>>)
              B == create_shared(A.st, E, <<sid>>)
          IN A.err = OK => Count(Strip(sid), read_shared(B.st, E)) = 1

(* ------------------------------------------------------------------ *)
(* The import graph the queries speak of                              *)
(* ------------------------------------------------------------------ *)

\* u imports v, both existing.
Edge(S, u, v) == u \in S.ents /\ v \in S.ents /\ InSeq(v, read_import_uids(S, u))

\* The entities a chain of 1..n import edges leads to from u.
RECURSIVE ReachIn(_, _, _)
ReachIn(S, u, n) ==
    IF n = 0 THEN {}
    ELSE LET near == ReachIn(S, u, n - 1)
         IN near \cup {v \in S.ents : Edge(S, u, v) \/ \E w \in near : Edge(S, w, v)}

Reach(S, u) == ReachIn(S, u, NumFuncs + NumObjs)

OnCycle(S, u) == u \in Reach(S, u)

HasCycle(S) == \E u \in S.ents : OnCycle(S, u)

\* u and v lie on a common closed chain of import edges.
SameRegion(S, u, v) == u = v \/ (v \in Reach(S, u) /\ u \in Reach(S, v))

\* c is a closed chain of import edges: it ends where it starts and passes no
\* entity twice on the way.
IsCycle(S, c) ==
    /\ Len(c) >= 2
    /\ c[1] = c[Len(c)]
    /\ \A i \in 1..(Len(c) - 1) : Edge(S, c[i], c[i + 1])
    /\ \A i, j \in 1..(Len(c) - 1) : c[i] = c[j] => i = j

\* The directed simple cycles of S, each as the sequence of its entities from
\* any one of them.
SimpleCycles(S) ==
    {p \in UNION {[1..k -> S.ents] : k \in 1..(NumFuncs + NumObjs)} :
        /\ \A i, j \in 1..Len(p) : p[i] = p[j] => i = j
        /\ \A i \in 1..Len(p) : Edge(S, p[i], p[(i % Len(p)) + 1])}

\* The reported cycle c is p, from some entity of p round to it again.
IsRotationOf(c, p) ==
    /\ Len(c) = Len(p) + 1
    /\ \E k \in 0..(Len(p) - 1) :
          \A i \in 1..Len(c) : c[i] = p[((i - 1 + k) % Len(p)) + 1]

Members(c) == {c[i] : i \in 1..Len(c)}

(* ------------------------------------------------------------------ *)
(* Claims over the query machines                                     *)
(* ------------------------------------------------------------------ *)

\* The nodes made so far are flagged cycle exactly when their uid was met
\* before in the walk, and a flagged node has no child.
CycleLeaves ==
    /\ \A i \in 1..Len(q.out) :
          q.out[i].cycle <=> \E j \in 1..(i - 1) : q.out[j].uid = q.out[i].uid
    /\ \A i \in 1..(Len(q.out) - 1) :
          q.out[i].cycle => q.out[i + 1].level <= q.out[i].level

\* The import lists are those of the edges A -> B -> A and nothing else.
TwoRing(A, B) ==
    /\ A # B /\ {A, B} \subseteq ents
    /\ \A u \in UIDs :
          imports[u] = IF u = A THEN <<<<B>>>> ELSE IF u = B THEN <<<<A>>>> ELSE <<>>

\* getChildren(A, 5) over A -> B -> A has returned A, B below it, and below B
\* the leaf A flagged cycle.
TwoRingTree(A, B) ==
    /\ q.pc = "done" /\ q.mode = "children" /\ q.root = A /\ q.depth = MaxDepth
    /\ q.out = <<Node(A, 0, FALSE, None), Node(B, 1, FALSE, None),
                 Node(A, 2, TRUE, None)>>

\* C8: getChildren and getParents return for every store and every depth; a
\* uid met a second time in one traversal is a leaf flagged cycle with no
\* children; over A -> B -> A, getChildren(A, 5) is A, B, A(cycle).
C8_WalkEndsWithCycleLeaves ==
    /\ [](q.pc \in {"walk", "done"} => CycleLeaves)
    /\ [](\A A \in UIDs, B \in UIDs :
            (/\ TwoRing(A, B)
             /\ q.pc = "done" /\ q.mode = "children" /\ q.root = A
             /\ q.depth = MaxDepth) => TwoRingTree(A, B))
    /\ (q.pc = "walk") ~> (q.pc = "done")

\* getChildren(A, 5) over A -> B -> A has returned.
C8_Witness == \E A \in UIDs, B \in UIDs : TwoRing(A, B) /\ TwoRingTree(A, B)

\* The import lists are those of the ring A -> B -> C -> A.
ThreeRing(A, B, C) ==
    /\ A # B /\ B # C /\ A # C /\ {A, B, C} \subseteq ents
    /\ \A u \in UIDs :
          imports[u] = IF u = A THEN <<<<B>>>> ELSE IF u = B THEN <<<<C>>>>
                       ELSE IF u = C THEN <<<<A>>>> ELSE <<>>

\* C9: detectCycles returns the empty list exactly when no chain of import
\* edges between existing entities is closed, and over the single ring
\* A -> B -> C -> A it returns one cycle, with members A, B and C.
C9_CyclesIffCyclic ==
    q.pc = "cycles" =>
        /\ (q.cycles = <<>>) <=> ~HasCycle(store)
        /\ \A A \in UIDs, B \in UIDs, C \in UIDs :
              ThreeRing(A, B, C) =>
                 Len(q.cycles) = 1 /\ Members(q.cycles[1]) = {A, B, C}

\* detectCycles has run over the ring and returned its one cycle.
C9_Witness ==
    /\ q.pc = "cycles"
    /\ \E A \in UIDs, B \in UIDs, C \in UIDs : ThreeRing(A, B, C)
    /\ Len(q.cycles) = 1

\* C10 as claimed: every simple cycle of the import graph is in the list
\* detectCycles returns, from some entity of the cycle round to it again.
C10_AllSimpleCycles ==
    q.pc = "cycles" =>
        \A p \in SimpleCycles(store) :
            \E i \in 1..Len(q.cycles) : IsRotationOf(q.cycles[i], p)

\* C10 as amended: every entry detectCycles returns is a directed simple cycle
\* of the import graph, and every entity that lies on a cycle lies on a common
\* closed chain with an entity of a returned cycle, so every cyclic region of
\* the graph is reported, not just one.
C10_EveryRegionReported ==
    q.pc = "cycles" =>
        /\ \A i \in 1..Len(q.cycles) : IsCycle(store, q.cycles[i])
        /\ \A u \in ents :
              OnCycle(store, u) =>
                 \E i \in 1..Len(q.cycles) :
                     \E v \in Members(q.cycles[i]) : SameRegion(store, u, v)

\* detectCycles has returned the cycles of two regions that share no entity.
C10_Witness ==
    /\ q.pc = "cycles"
    /\ \E i, j \in 1..Len(q.cycles) :
          /\ Members(q.cycles[i]) \cap Members(q.cycles[j]) = {}
          /\ Cardinality(Members(q.cycles[i])) = 2

(* ------------------------------------------------------------------ *)
(* Claims over the queries of a store the operations built            *)
(* ------------------------------------------------------------------ *)

\* u and v are joined by an import edge, in either direction.
Joined(S, u, v) ==
    \/ InSeq(v, read_import_uids(S, u))
    \/ InSeq(u, read_import_uids(S, v))

\* u and v are joined in the union of import and computed-importer edges.
JoinedOrListed(S, u, v) ==
    \/ Joined(S, u, v)
    \/ u \in RecipientNames(S, v)
    \/ v \in RecipientNames(S, u)

\* The existing entities at most n steps away from u, a step being an import
\* edge in either direction and, if listed, a computed-importer edge as well.
RECURSIVE Within(_, _, _, _)
Within(S, listed, u, n) ==
    IF n = 0 THEN {u}
    ELSE LET near == Within(S, listed, u, n - 1)
         IN near \cup {v \in S.ents : \E w \in near :
                          IF listed THEN JoinedOrListed(S, w, v) ELSE Joined(S, w, v)}

\* C11: for existing from and to, getPath(from, to) is [from] when they are
\* the same; a path it returns starts at from, ends at to, joins every
\* consecutive pair by an import edge in either direction and is as short as
\* any such sequence; and it returns no path exactly when to cannot be reached
\* from from in the undirected union of import and computed-importer edges.
C11_PathShortestUndirected ==
    \A from \in ents, to \in ents :
        LET p == get_path(store, from, to).val
        IN /\ from = to => p = <<from>>
           /\ from # to /\ p # NoPath =>
                /\ p[1] = from /\ p[Len(p)] = to
                /\ \A i \in 1..(Len(p) - 1) : Joined(store, p[i], p[i + 1])
                /\ to \notin Within(store, FALSE, from, Len(p) - 2)
           /\ from # to =>
                (p = NoPath <=>
                    to \notin Within(store, TRUE, from, NumFuncs + NumObjs))

\* uid is in no way referred to: no TOC starts with it, no import edge of an
\* entity names it as imported or as via, and its export area is empty.
Unreferenced(S, uid) ==
    /\ \A t \in TocArgs :
          S.toc[t].exists /\ S.toc[t].lines # <<>> => _read_lines(S.toc[t].lines)[1] # <<uid>>
    /\ \A o \in S.ents : \A i \in 1..Len(S.imports[o]) :
          LET e == read_imports(S, o)[i] IN e[1] # uid /\ e[2] # uid
    /\ \A n \in Names : S.exports[uid][n] = NoEntry

\* Two objects created one after the other into the default TOC, and nothing
\* else done.
TwoCreated(S, O1, O2) ==
    /\ S.ents = {O1, O2} /\ O1 # O2
    /\ S.toc[None].lines = <<<<O1>>, <<O2>>>>
    /\ \A u \in UIDs : S.imports[u] = <<>> /\ S.exports[u] = NoExports

\* C12: getOrphans() returns exactly the existing uids that no TOC starts
\* with, no import edge names as imported or via, and whose export area is
\* empty, each once; after creating O1 then O2 with no edges it is [O2].
C12_OrphansExact ==
    LET orphans == get_orphans(store)
    IN /\ NoDuplicates(orphans)
       /\ \A u \in UIDs : InSeq(u, orphans) <=> (u \in ents /\ Unreferenced(store, u))
       /\ \A O1 \in UIDs, O2 \in UIDs : TwoCreated(store, O1, O2) => orphans = <<O2>>

\* O1 then O2 created and nothing else: O2 is the orphan, O1 the TOC root.
C12_Witness ==
    \E O1 \in UIDs, O2 \in UIDs :
        TwoCreated(store, O1, O2) /\ get_orphans(store) = <<O2>>

\* The reverse record updateImportWhy addresses is there: the recipient file
\* keyed importer under exporter's sub-collection for imported, or under
\* imported.
RecordExists(S, importer, imported, exporter) ==
    IF exporter # None
    THEN /\ S.exports[exporter][imported].k = "dir"
         /\ S.exports[exporter][imported].recs[importer] # Absent
    ELSE S.exports[imported][importer].k = "file"

\* S with the reason of that one record set to why and nothing else touched.
WithReason(S, importer, imported, exporter, why) ==
    IF exporter # None
    THEN [S EXCEPT !.exports[exporter][imported].recs[importer] = why]
    ELSE [S EXCEPT !.exports[imported][importer].text = why]

\* C13: updateImportWhy fails with ReverseRecordNotFound and writes nothing
\* when the reverse record it addresses does not exist, and when the record
\* exists it changes that record's reason and nothing else.
C13_UpdateWhyOnlyExisting ==
    \A importer \in used, imported \in used, why \in Whys, exporter \in used \cup {None} :
        LET R == update_import_why(store, importer, imported, why, exporter)
        IN IF RecordExists(store, importer, imported, exporter)
           THEN R.err = OK /\ R.st = WithReason(store, importer, imported, exporter, why)
           ELSE R.err = REVERSE_NOT_FOUND /\ R.st = store

\* The place of the edge removeImport is to remove from edges: the first with
\* imported and via exporter, or with no exporter the first with imported;
\* 0 when there is none.
FirstMatch(edges, imported, exporter) ==
    LET hits == {i \in 1..Len(edges) :
                    edges[i][1] = imported /\ (exporter = None \/ edges[i][2] = exporter)}
    IN IF hits = {} THEN 0 ELSE CHOOSE i \in hits : \A j \in hits : i <= j

\* S without the edge at place i of importer's list and without the reverse
\* record of that edge: under its via when it has one, otherwise under the
\* entity it imports.
WithoutEdge(S, importer, i) ==
    LET edges == read_imports(S, importer)
        e == edges[i]
        S1 == [S EXCEPT !.imports[importer] =
                  [j \in 1..(Len(edges) - 1) |->
                      LET d == IF j < i THEN edges[j] ELSE edges[j + 1]
                      IN IF d[2] = None THEN <<d[1]>> ELSE d]]
    IN IF e[2] # None
       THEN [S1 EXCEPT !.exports[e[2]][e[1]].recs[importer] = Absent]
       ELSE IF S1.exports[e[1]][importer].k = "file"
            THEN [S1 EXCEPT !.exports[e[1]][importer] = NoEntry]
            ELSE S1

\* C16: removeImport removes at most one edge, the first with the imported uid
\* and the via given, or with no exporter given the first with the imported
\* uid; the reverse record it deletes is the one of the edge removed, and
\* every other edge and reverse record is left as it was.
C16_RemoveImportOneEdge ==
    \A I \in ents, M \in used, E \in used \cup {None} :
        LET i == FirstMatch(read_imports(store, I), M, E)
            R == remove_import(store, I, M, E)
        IN /\ R.err = OK
           /\ R.st = IF i = 0 THEN store ELSE WithoutEdge(store, I, i)

\* C17: after removeShared(E, S) for an existing E, S is not in E's shared
\* list, E's export area has no sub-collection keyed S, no import list holds
\* the edge (S, via E), and every other edge is where it was.
C17_RemoveSharedStripsEdges ==
    \A E \in ents, sid \in used :
        LET R == remove_shared(store, E, sid)
        IN /\ R.err = OK
           /\ ~InSeq(sid, read_shared(R.st, E))
           /\ R.st.exports[E][sid].k # "dir"
           /\ \A u \in ents :
                 read_imports(R.st, u) =
                     SelectSeq(read_imports(store, u), LAMBDA e : e # <<sid, E>>)

(* ------------------------------------------------------------------ *)
(* Claims over the store machine of the importers of one entity       *)
(* ------------------------------------------------------------------ *)

\* r has a direct export record at M.
DirectRecord(S, M, r) == S.exports[M][r].k = "file"

\* The entities that share M and hold a record of r in their sub-collection
\* for M.
SharersWith(S, M, r) ==
    {E \in S.ents : /\ InSeq(M, read_shared(S, E))
                    /\ S.exports[E][M].k = "dir"
                    /\ r \in UIDs /\ S.exports[E][M].recs[r] # Absent}

C20_ImportersAreRecipients ==
    \A M \in ents : \A I \in ents \ {M} :
        InSeq(M, read_import_uids(store, I)) =>
            I \in SeqNames(get_recipients(store, M).val)

\* I imports M and no reverse record of I is left, at M or in a shared
\* sub-collection for M, and getRecipients(M) lists I.
C20_Witness ==
    \E M \in ents : \E I \in ents \ {M} :
        /\ InSeq(M, read_import_uids(store, I))
        /\ ~DirectRecord(store, M, I)
        /\ \A E \in ents : exports[E][M].recs[I] = Absent
        /\ I \in SeqNames(get_recipients(store, M).val)

\* C21: every recipient getRecipients(uid) returns is an existing entity
\* whose import list holds an edge with imported = uid.
C21_RecipientsAreImporters ==
    \A M \in ents :
        \A r \in SeqNames(get_recipients(store, M).val) :
            r \in ents /\ InSeq(M, read_import_uids(store, r))

\* C28: the tree getChildren(uid, depth) or getParents(uid, depth) returns
\* has no node more than depth levels below the root, and with depth 0 it is
\* the root alone, with no child and no cycle flag.
C28_WalkStopsAtDepth ==
    q.pc \in {"walk", "done"} =>
        /\ \A i \in 1..Len(q.out) : q.out[i].level <= q.depth
        /\ q.pc = "done" /\ q.depth = 0 => q.out = <<Node(q.root, 0, FALSE, None)>>

\* A walk of depth 0 has returned the root alone although the root has
\* neighbours to walk to.
C28_Witness ==
    /\ q.pc = "done" /\ q.depth = 0
    /\ q.out = <<Node(q.root, 0, FALSE, None)>>
    /\ Neighbours(store, q.mode, q.root) # <<>>

\* C29: the list detectCycles returns holds no cycle twice, also when an
\* importer holds a direct edge and a via edge to the same imported uid.
C29_NoCycleTwice == NoDuplicates(detect_cycles(store))

(* ------------------------------------------------------------------ *)
(* Claims over the walk machine of bounded depth                      *)
(* ------------------------------------------------------------------ *)

\* The entities a chain of 1..n import edges leads back to from u.
RECURSIVE ReachBackIn(_, _, _)
ReachBackIn(S, u, n) ==
    IF n = 0 THEN {}
    ELSE LET near == ReachBackIn(S, u, n - 1)
         IN near \cup {v \in S.ents : Edge(S, v, u) \/ \E w \in near : Edge(S, v, w)}

\* C18: every entity a chain of at most depth import edges leads to from uid
\* is a node of the tree getChildren(uid, depth) returns, and every entity
\* such a chain leads from is a node of the tree getParents(uid, depth)
\* returns, whatever the order of the import lists.
C18_WalkCoversDepth ==
    q.pc = "done" =>
        LET nodes == {q.out[i].uid : i \in 1..Len(q.out)}
        IN IF q.mode = "children"
           THEN ReachIn(store, q.root, q.depth) \subseteq nodes
           ELSE ReachBackIn(store, q.root, q.depth) \subseteq nodes

\* C22: createFunction with an existing owner creates a new entity of kind
\* function, appends its uid to the owner's import list as a direct edge,
\* writes the reverse record keyed by the owner in the new function's export
\* area with the fixed owned-member reason, and appends the uid to the TOC;
\* without owner it adds no edge and still appends to the TOC.
C22_CreateFunctionLinksOwner ==
    \A uid \in _gen_uid("function", used), owner \in ents \cup {None}, t \in TocArgs :
        LET R == create_function(store, uid, Text("s"), Text("p"), owner, t)
            S == R.st
        IN /\ R.err = OK
           /\ uid \notin ents /\ S.ents = ents \cup {uid}
           /\ DictGet(get_entity(S, uid).val.description, "kind", <<>>) = Text("function")
           /\ S.toc[t].exists
           /\ S.toc[t].lines = Append(_read_lines(toc[t].lines), <<uid>>)
           /\ \A u \in ents :
                 read_imports(S, u) =
                     IF u = owner THEN Append(read_imports(store, u), <<uid, None>>)
                     ELSE read_imports(store, u)
           /\ read_imports(S, uid) = <<>>
           /\ \A n \in Names :
                 S.exports[uid][n] = IF n = owner THEN FileEntry(OWNER_WHY) ELSE NoEntry
           /\ \A u \in ents : S.exports[u] = exports[u] /\ S.shared[u] = shared[u]

\* A function created with an owner: the owner imports it directly, its
\* export area holds the owner's record, and the TOC lists it.
C22_Witness ==
    \E f \in FuncUids \cap ents, o \in ents \ FuncUids, t \in TocArgs :
        /\ InSeq(<<f, None>>, read_imports(store, o))
        /\ exports[f][o] = FileEntry(OWNER_WHY)
        /\ InSeq(<<f>>, toc[t].lines)

NoDangling(S) ==
    \A u \in S.ents : \A i \in 1..Len(S.imports[u]) :
        LET e == read_imports(S, u)[i]
        IN e[1] \in S.ents /\ (e[2] # None => e[2] \in S.ents)

\* R succeeded and left an edge dangling.
Dangles(R) == R.err = OK /\ ~NoDangling(R.st)

\* C25: no edge dangles in a store that successful operations built: an
\* operation that succeeds on a store with no dangling edge leaves none.
C25_NoDanglingEdge ==
    NoDangling(store) =>
        /\ \A uid \in _gen_uid("object", used), t \in TocArgs :
              ~Dangles(create_object(store, uid, Text("s"), Text("p"), "object", t))
        /\ \A uid \in _gen_uid("function", used), t \in TocArgs, owner \in used \cup {None} :
              ~Dangles(create_function(store, uid, Text("s"), Text("p"), owner, t))
        /\ \A a \in used, b \in used :
              /\ ~Dangles(create_shared(store, a, <<b>>))
              /\ ~Dangles(remove_shared(store, a, b))
              /\ \A e \in used \cup {None} :
                    /\ ~Dangles(add_import(store, a, b, "w1", e))
                    /\ ~Dangles(update_import_why(store, a, b, "w2", e))
                    /\ ~Dangles(remove_import(store, a, b, e))
        /\ \A a \in used : ~Dangles(remove_entity(store, a))

\* C26: for existing A and B, getPath(A, B) returns a path exactly when
\* getPath(B, A) does, and the two paths have the same length.
C26_PathSymmetric ==
    \A A \in ents, B \in ents :
        LET p == get_path(store, A, B).val
            r == get_path(store, B, A).val
        IN (p = NoPath <=> r = NoPath) /\ Len(p) = Len(r)

\* C27: readTOC fails with TocNotFound exactly when no entity was ever
\* created; otherwise it returns the created uids that still exist, each
\* once, in creation order: a create appends its uid, a removeEntity takes
\* its uid out and leaves the others in place, so that removing an entry
\* that is not the first never changes the first. (Every create of the
\* machine addresses the one TOC there is.)
C27_TocListsSurvivors ==
    \A t \in TocArgs :
        LET R == read_toc(store, t)
        IN /\ R.err = TOC_NOT_FOUND <=> used = {}
           /\ R.err = OK =>
                /\ {R.val[i] : i \in 1..Len(R.val)} = ents
                /\ NoDuplicates(R.val)
                /\ \A i, j \in 1..Len(R.val) :
                      i < j /\ (R.val[i] \in FuncUids <=> R.val[j] \in FuncUids)
                          => R.val[i] < R.val[j]
           /\ \A uid \in _gen_uid("object", used) :
                 read_toc(create_object(store, uid, Text("s"), Text("p"), "object", t).st,
                          t).val = Append(R.val, uid)
           /\ \A uid \in ents :
                 LET D == read_toc(remove_entity(store, uid).st, t)
                 IN /\ D.val = SelectSeq(R.val, LAMBDA x : x # uid)
                    /\ R.val # <<>> /\ uid # R.val[1] => D.val[1] = R.val[1]

(* ------------------------------------------------------------------ *)
(* Claims over the store machine with names as a caller may type them *)
(* ------------------------------------------------------------------ *)

\* C15: the set of entities changes only through the create operations, each
\* adding the one new uid it returns, and removeEntity, removing the uid it
\* names; addImport, createShared, updateDescription, updateImportWhy,
\* moveEntity, removeImport and removeShared leave it as it was, whatever
\* names they are given.
C15_EntitySetFrame ==
    /\ \A uid \in _gen_uid("object", used), t \in TocArgs :
          /\ uid \notin ents
          /\ create_object(store, uid, Text("s"), Text("p"), "object", t).st.ents
                 = ents \cup {uid}
    /\ \A uid \in _gen_uid("function", used), t \in TocArgs, owner \in UIDs \cup {None} :
          /\ uid \notin ents
          /\ create_function(store, uid, Text("s"), Text("p"), owner, t).st.ents
                 = ents \cup {uid}
    /\ \A uid \in UIDs : remove_entity(store, uid).st.ents = ents \ {uid}
    /\ \A a \in UIDs, b \in Names, e \in UIDs \cup {None} :
          /\ add_import(store, a, b, "w1", e).st.ents = ents
          /\ update_import_why(store, a, b, "w2", e).st.ents = ents
          /\ remove_import(store, a, b, e).st.ents = ents
    /\ \A a \in UIDs, b \in Names :
          remove_shared(store, a, b).st.ents = ents
    /\ \A a \in UIDs :
          /\ update_description(store, a, <<<<"purpose", Text("q")>>>>).st.ents = ents
          /\ move_entity(store, a, Text("t")).st.ents = ents
    /\ \A a \in UIDs, b \in Names \cup ClimbNames :
          create_shared(store, a, <<b>>).st.ents = ents

\* The store after the purpose of sid was changed, if sid is an entity.
Repurposed(S, sid) ==
    IF entity_exists(S, sid)
    THEN update_description(S, sid, <<<<"purpose", Text("q")>>>>).st
    ELSE S

\* C23: the first createShared(E, [S]) writes as description of the
\* sub-collection the purpose of S if S exists with a purpose, otherwise S
\* itself; a later createShared(E, [S]) leaves E's shared list, that
\* description and the recipient records as they were, also when the purpose
\* of S was changed in between.
C23_CreateSharedFirstWriteWins ==
    \A E \in ents, sid \in Names :
        LET A == create_shared(store, E, <<sid>>)
            purpose == IF entity_exists(store, sid)
                       THEN DictGet(read_desc(store, sid), "purpose", Text(""))
                       ELSE Text("")
        IN A.err = OK =>
             /\ exports[E][sid].desc = Absent =>
                   A.st.exports[E][sid].desc =
                       IF purpose # Text("") THEN purpose[1].rest ELSE ToString(sid)
             /\ \A between \in {A.st, Repurposed(A.st, sid)} :
                   LET B == create_shared(between, E, <<sid>>)
                   IN /\ B.err = OK
                      /\ B.st.shared[E] = A.st.shared[E]
                      /\ B.st.exports[E][sid] = A.st.exports[E][sid]

(* ------------------------------------------------------------------ *)
(* Claims over the description machine                                *)
(* ------------------------------------------------------------------ *)

\* after is before overwritten key by key by fields: a key of fields has the
\* value given, any other key the value it had, and no key is lost or new.
Overwritten(before, fields, after) ==
    /\ DictKeys(after) = DictKeys(before) \cup DictKeys(fields)
    /\ \A k \in DictKeys(after) :
          DictGet(after, k, <<>>) =
              IF k \in DictKeys(fields) THEN DictGet(fields, k, <<>>)
              ELSE DictGet(before, k, <<>>)

\* C14: getEntity returns the creation mapping right after a create, and
\* after each updateDescription the description it returned before
\* overwritten key by key by the fields given.
C14_DescriptionMerges ==
    /\ \A uid \in _gen_uid("object", used), p \in DescValues, t \in TocArgs :
          LET R == create_object(store, uid, Text("s"), p, "object", t)
          IN Overwritten(<<>>,
                         <<<<"source", Text("s")>>, <<"kind", Text("object")>>,
                           <<"purpose", p>>>>,
                         get_entity(R.st, uid).val.description)
    /\ \A uid \in ents, fields \in DescFields :
          LET R == update_description(store, uid, fields)
          IN /\ R.err = OK
             /\ Overwritten(get_entity(store, uid).val.description, fields,
                            get_entity(R.st, uid).val.description)

====
